---- MODULE Spec2Model ----
(***************************************************************************)
(* A model of sample/1_glTFViewer/gltfViewer.cpp: the flattening of a glTF *)
(* scene graph into one vertex buffer, one index buffer and a list of draw *)
(* commands (load_gltf_model, load_gltf_node), and main's sequence of      *)
(* stages with the three callbacks handed to Renderer::Run.                *)
(*                                                                         *)
(* Conventions.                                                            *)
(*  - C++ containers are 0-based; a TLA+ sequence s models them with       *)
(*    element i at s[i+1].  Node, mesh, accessor, view and buffer ids keep *)
(*    their 0-based C++ values.                                            *)
(*  - A glm::mat4 is the sequence of its 16 entries in column-major order  *)
(*    (entry of column c, row r at position 4*c + r + 1).  Entries are     *)
(*    integers: every matrix of the model has small integer entries, which *)
(*    float arithmetic computes exactly.                                   *)
(*  - A float read from a buffer is kept as its 4 bytes in memory order,   *)
(*    which is what the reinterpreting read at line 127 yields.            *)
(***************************************************************************)
EXTENDS Integers, Sequences, FiniteSets, TLC

(***************************************************************************)
(* Bounds of the model.                                                    *)
(***************************************************************************)
\* Number of nodes of the generated glTF models (node ids 0..MaxNodes-1).
MaxNodes == 3
\* Number of render callbacks the renderer issues before the model stops it.
MaxFrames == 2
\* r.getSwapchainImageViews().size(): the number of swapchain images.
NumImages == 2

(***************************************************************************)
(* Program constants.                                                      *)
(***************************************************************************)
\* sizeof(Vertex): two glm::vec3.
SizeofVertex == 24
\* sizeof(uint32_t), the element type of indicies.
SizeofUint32 == 4
\* sizeof(ShaderUniform): two glm::mat4.
SizeofShaderUniform == 128

\* The float 0.7f (0x3F333333) in memory, each component of v.color at line 130.
ColorBits == << 51, 51, 51, 63 >>

(***************************************************************************)
(* glm::mat4                                                               *)
(***************************************************************************)
\* glm::mat4(1.0): the identity.
Identity4 == [i \in 1..16 |-> IF (i - 1) % 5 = 0 THEN 1 ELSE 0]

\* glm's operator*(mat4 a, mat4 b): result column c is a applied to column c of b.
Mat4Mul(a, b) ==
  [i \in 1..16 |->
     LET c == (i - 1) \div 4
         r == (i - 1) % 4
     IN  a[0 * 4 + r + 1] * b[c * 4 + 0 + 1]
       + a[1 * 4 + r + 1] * b[c * 4 + 1 + 1]
       + a[2 * 4 + r + 1] * b[c * 4 + 2 + 1]
       + a[3 * 4 + r + 1] * b[c * 4 + 3 + 1]]

\* glm::mat4(x0, ..., x15) of lines 80-85: the 16 scalars in column-major order,
\* taken from node.matrix[0] .. node.matrix[15].
Mat4FromArray(m) == [i \in 1..16 |-> m[i]]

\* Lines 80-85: the node's matrix when it has 16 elements, else the identity.
NodeLocalMatrix(node) ==
  IF Len(node.matrix) = 16 THEN Mat4FromArray(node.matrix) ELSE Identity4

\* A plausible slip: parent * local instead of local * parent.
AccumulateTransformSwapped(localTransform, transform) ==
  Mat4Mul(transform, localTransform)

\* Line 87: localTransform = localTransform * transform.
AccumulateTransform(localTransform, transform) ==
  Mat4Mul(localTransform, transform)

(***************************************************************************)
(* Reading typed data out of a tinygltf buffer.                            *)
(***************************************************************************)
\* One byte of buffer.data at a 0-based byte address.
ByteAt(data, addr) == data[addr + 1]

\* *(uint16_t* )(base + addr) on the little-endian targets of the renderer.
ReadU16(data, addr) == ByteAt(data, addr) + 256 * ByteAt(data, addr + 1)

\* *(float* )(base + addr), kept as its 4 bytes.
ReadF32(data, addr) ==
  << ByteAt(data, addr), ByteAt(data, addr + 1),
     ByteAt(data, addr + 2), ByteAt(data, addr + 3) >>

\* Bytes of one component of the accessor's component type.
ComponentSize(componentType) ==
  CASE componentType = "UNSIGNED_BYTE"  -> 1
    [] componentType = "UNSIGNED_SHORT" -> 2
    [] componentType = "UNSIGNED_INT"   -> 4
    [] componentType = "FLOAT"          -> 4

\* Components of one element of the accessor's type.
NumComponents(type) ==
  CASE type = "SCALAR" -> 1
    [] type = "VEC3"   -> 3

\* tinygltf::Accessor::ByteStride(bufferView): the view's stride when it has
\* one (and it is a multiple of the component size), else the packed size.
ByteStride(accessor, bufferView) ==
  IF bufferView.byteStride = 0
    THEN ComponentSize(accessor.componentType) * NumComponents(accessor.type)
    ELSE IF bufferView.byteStride % ComponentSize(accessor.componentType) = 0
           THEN bufferView.byteStride
           ELSE -1

\* Lines 127-130: the vertex of element `index` of the position accessor.
ReadVertex(model, positionAccessor, index) ==
  LET positionBufferView == model.bufferViews[positionAccessor.bufferView + 1]
      positionBuffer == model.buffers[positionBufferView.buffer + 1]
      positionBufferStride == ByteStride(positionAccessor, positionBufferView)
      elementBase == positionBufferView.byteOffset + positionAccessor.byteOffset
                       + positionBufferStride * index
  IN  [pos   |-> << ReadF32(positionBuffer, elementBase),
                    ReadF32(positionBuffer, elementBase + 4),
                    ReadF32(positionBuffer, elementBase + 8) >>,
       color |-> << ColorBits, ColorBits, ColorBits >>]

\* Lines 137-138: element `index` of the index accessor, read through a
\* uint16_t pointer whatever the accessor's component type, then widened.
ReadIndex(model, indexAccessor, index) ==
  LET indexBufferView == model.bufferViews[indexAccessor.bufferView + 1]
      indexBuffer == model.buffers[indexBufferView.buffer + 1]
      indexBufferStride == ByteStride(indexAccessor, indexBufferView)
      elementBase == indexBufferView.byteOffset + indexAccessor.byteOffset
                       + indexBufferStride * index
  IN  ReadU16(indexBuffer, elementBase)

(***************************************************************************)
(* load_gltf_node                                                          *)
(***************************************************************************)
\* A plausible slip: firstIndex and vertexOffset exchanged.
MakeDrawCmdSwapped(indexCount, startIndex, startVertex, localTransform) ==
  [indexCount   |-> indexCount,
   firstIndex   |-> startVertex,
   vertexOffset |-> startIndex,
   transform    |-> localTransform]

\* Lines 142-147: the draw command of one primitive.
MakeDrawCmd(indexCount, startIndex, startVertex, localTransform) ==
  [indexCount   |-> indexCount,
   firstIndex   |-> startIndex,
   vertexOffset |-> startVertex,
   transform    |-> localTransform]

\* Lines 99-147: one iteration of the loop over mesh.primitives.  st holds the
\* three file-scope vectors (vertices, indicies, drawObjects).
PushPrimitive(model, primitive, localTransform, st) ==
  LET positionAccessor == model.accessors[primitive.attributes.POSITION + 1]
      indexAccessor == model.accessors[primitive.indices + 1]
      startVertex == Len(st.vertices)
      startIndex == Len(st.indicies)
  IN  [vertices    |-> st.vertices \o
                         [k \in 1..positionAccessor.count |->
                            ReadVertex(model, positionAccessor, k - 1)],
       indicies    |-> st.indicies \o
                         [k \in 1..indexAccessor.count |->
                            ReadIndex(model, indexAccessor, k - 1)],
       drawObjects |-> Append(st.drawObjects,
                         MakeDrawCmd(indexAccessor.count, startIndex,
                                     startVertex, localTransform))]

\* A plausible slip: only the first primitive of a mesh is flattened.
MeshPrimitivesFirstOnly(model, node) ==
  IF node.mesh >= 0
    THEN SubSeq(model.meshes[node.mesh + 1].primitives, 1, 1)
    ELSE << >>

\* Lines 90-97: the primitives the node visit iterates over (none when the
\* node has no mesh).
MeshPrimitives(model, node) ==
  IF node.mesh >= 0 THEN model.meshes[node.mesh + 1].primitives ELSE << >>

RECURSIVE PushPrimitives(_, _, _, _, _)
\* Lines 97-148: the loop over the primitives, from position k on.
PushPrimitives(model, primitives, k, localTransform, st) ==
  IF k > Len(primitives)
    THEN st
    ELSE PushPrimitives(model, primitives, k + 1, localTransform,
                        PushPrimitive(model, primitives[k], localTransform, st))

RECURSIVE load_gltf_node(_, _, _, _)
RECURSIVE VisitChildren(_, _, _, _, _)
RECURSIVE VisitChildrenReversed(_, _, _, _, _)
\* A plausible slip: the children are visited from the last to the first.
VisitChildrenReversed(model, children, k, localTransform, st) ==
  IF k > Len(children)
    THEN st
    ELSE load_gltf_node(model, children[k], localTransform,
                        VisitChildrenReversed(model, children, k + 1,
                                              localTransform, st))

\* Lines 152-155: the loop over node.children, from position k on.
VisitChildren(model, children, k, localTransform, st) ==
  IF k > Len(children)
    THEN st
    ELSE VisitChildren(model, children, k + 1, localTransform,
                       load_gltf_node(model, children[k], localTransform, st))

\* Lines 73-156: one node visit, returning the vectors as it leaves them.
load_gltf_node(model, nodeId, transform, st) ==
  LET node == model.nodes[nodeId + 1]
      localTransform == AccumulateTransform(NodeLocalMatrix(node), transform)
      st1 == PushPrimitives(model, MeshPrimitives(model, node), 1,
                            localTransform, st)
  IN  VisitChildren(model, node.children, 1, localTransform, st1)

\* Line 188: the root nodes of the default scene.
SceneRoots(model) == model.scenes[model.defaultScene + 1].nodes

RECURSIVE VisitRoots(_, _, _, _)
\* Lines 190-196: the loop over the scene's root nodes, from position k on.
VisitRoots(model, roots, k, st) ==
  IF k > Len(roots)
    THEN st
    ELSE VisitRoots(model, roots, k + 1,
                    load_gltf_node(model, roots[k], Identity4, st))

\* Lines 187-196 of load_gltf_model: the flattening of a parsed model onto
\* the file-scope vectors st.
FlattenModel(model, st) == VisitRoots(model, SceneRoots(model), 1, st)

\* A plausible slip: the `!ret` test left out.
LoaderFailedErrOnly(err, ret) == err # ""

\* Lines 177-185: load_gltf_model throws on a non-empty error string or on a
\* false return of LoadASCIIFromFile; the warning only logs (lines 173-175).
LoaderFailed(err, ret) == err # "" \/ ~ret

(***************************************************************************)
(* The glTF models the loader may hand back.  Every model carries the same *)
(* meshes, accessors, buffer views and buffers:                            *)
(*   mesh 0: primitive A (3 positions, tightly packed; 3 indices, 16-bit)  *)
(*           primitive B (4 positions, view stride 16; 5 indices, 32-bit)  *)
(*   mesh 1: primitive C (2 positions, view stride 16; 2 indices, 8-bit)   *)
(* and differs in its nodes: the shape of the forest, the order of the     *)
(* children lists, and each node's matrix and mesh.  Every model is valid  *)
(* glTF as tinygltf parses it (a forest of nodes, a default scene,         *)
(* POSITION and indices on every primitive, indices below the position     *)
(* count, reads inside the buffers).                                       *)
(***************************************************************************)
NodeIds == 0..(MaxNodes - 1)

\* Little-endian bytes of w, n of them.
LE(w, n) ==
  [k \in 1..n |->
     CASE k = 1 -> w % 256
       [] k = 2 -> (w \div 256) % 256
       [] k = 3 -> (w \div 65536) % 256
       [] k = 4 -> (w \div 16777216) % 256]

Zeros(n) == [k \in 1..n |-> 0]

RECURSIVE Concat(_)
Concat(seqs) == IF seqs = << >> THEN << >> ELSE Head(seqs) \o Concat(Tail(seqs))

\* The index values of the three primitives, as the glTF file states them.
IndicesA == << 0, 1, 2 >>
IndicesB == << 0, 1, 2, 3, 0 >>
IndicesC == << 0, 1 >>

\* The floats 0.0f, 1.0f, 2.0f and -1.0f in memory.
FZero == << 0, 0, 0, 0 >>
FOne == << 0, 0, 128, 63 >>
FTwo == << 0, 0, 0, 64 >>
FMinusOne == << 0, 0, 128, 191 >>

\* The positions of the three primitives.
PointsA == << << FZero, FZero, FZero >>, << FOne, FZero, FZero >>,
              << FZero, FOne, FZero >> >>
PointsB == << << FZero, FZero, FOne >>, << FTwo, FZero, FZero >>,
              << FZero, FTwo, FZero >>, << FMinusOne, FZero, FOne >> >>
PointsC == << << FTwo, FTwo, FZero >>, << FZero, FMinusOne, FMinusOne >> >>

IndexBytes(values, size) ==
  Concat([k \in 1..Len(values) |-> LE(values[k], size)])

PointBytes(points, stride) ==
  Concat([k \in 1..Len(points) |->
            points[k][1] \o points[k][2] \o points[k][3]
              \o Zeros(stride - 12)])

\* buffers[0]: A's indices at 0 (6 bytes, 2 of padding), B's at 8 (20 bytes),
\* C's at 28 (2 bytes, 2 of padding).
IndexBufferData ==
  IndexBytes(IndicesA, 2) \o Zeros(2) \o IndexBytes(IndicesB, 4)
    \o IndexBytes(IndicesC, 1) \o Zeros(2)

\* buffers[1]: A's positions at 0 (stride 12), B's at 36 and C's at 100
\* (stride 16).
VertexBufferData ==
  PointBytes(PointsA, 12) \o PointBytes(PointsB, 16) \o PointBytes(PointsC, 16)

AssetBuffers == << IndexBufferData, VertexBufferData >>

AssetBufferViews ==
  << [buffer |-> 0, byteOffset |-> 0,  byteStride |-> 0],
     [buffer |-> 1, byteOffset |-> 0,  byteStride |-> 0],
     [buffer |-> 1, byteOffset |-> 36, byteStride |-> 16] >>

AssetAccessors ==
  << [bufferView |-> 1, byteOffset |-> 0,  componentType |-> "FLOAT",
      type |-> "VEC3", count |-> 3],
     [bufferView |-> 0, byteOffset |-> 0,  componentType |-> "UNSIGNED_SHORT",
      type |-> "SCALAR", count |-> 3],
     [bufferView |-> 2, byteOffset |-> 0,  componentType |-> "FLOAT",
      type |-> "VEC3", count |-> 4],
     [bufferView |-> 0, byteOffset |-> 8,  componentType |-> "UNSIGNED_INT",
      type |-> "SCALAR", count |-> 5],
     [bufferView |-> 2, byteOffset |-> 64, componentType |-> "FLOAT",
      type |-> "VEC3", count |-> 2],
     [bufferView |-> 0, byteOffset |-> 28, componentType |-> "UNSIGNED_BYTE",
      type |-> "SCALAR", count |-> 2] >>

AssetMeshes ==
  << [primitives |-> << [attributes |-> [POSITION |-> 0], indices |-> 1],
                        [attributes |-> [POSITION |-> 2], indices |-> 3] >>],
     [primitives |-> << [attributes |-> [POSITION |-> 4], indices |-> 5] >>] >>

\* The 16-element matrix a node of the generated models carries: a translation,
\* a rotation, a non-uniform scale, another translation; no two commute.
NodeMatrixOf(n) ==
  CASE n % 4 = 0 -> << 1, 0, 0, 0,   0, 1, 0, 0,   0, 0, 1, 0,   1, 0, 0, 1 >>
    [] n % 4 = 1 -> << 0, 1, 0, 0,  -1, 0, 0, 0,   0, 0, 1, 0,   0, 0, 0, 1 >>
    [] n % 4 = 2 -> << 2, 0, 0, 0,   0, 3, 0, 0,   0, 0, 1, 0,   0, 0, 0, 1 >>
    [] n % 4 = 3 -> << 1, 0, 0, 0,   0, 1, 0, 0,   0, 0, 1, 0,   0, 2, 5, 1 >>

\* The three kinds of node of the generated models:
\*   0: a 16-element matrix and mesh 0;
\*   1: a matrix array of another size (empty, or 15 elements) and mesh 1;
\*   2: a 16-element matrix and no mesh.
NodeMatrixOfKind(n, kind) ==
  CASE kind = 1 /\ n % 2 = 0 -> << >>
    [] kind = 1 /\ n % 2 = 1 -> SubSeq(NodeMatrixOf(n), 1, 15)
    [] OTHER -> NodeMatrixOf(n)

NodeMeshOfKind(kind) ==
  CASE kind = 0 -> 0
    [] kind = 1 -> 1
    [] OTHER -> -1

RECURSIVE Ordered(_, _)
\* The members of a set of node ids as a list, ascending or descending.
Ordered(S, descending) ==
  IF S = {}
    THEN << >>
    ELSE LET x == IF descending
                    THEN CHOOSE y \in S : \A z \in S : z <= y
                    ELSE CHOOSE y \in S : \A z \in S : y <= z
         IN  << x >> \o Ordered(S \ {x}, descending)

\* parent[n] is n's parent, -1 for a root of the default scene, -2 for a node
\* that is in no children list and is a root of the other scene only.
ParentMaps ==
  {p \in [NodeIds -> (NodeIds \cup {-1, -2})] : \A n \in NodeIds : p[n] < n}

BuildModel(parent, kind, descending) ==
  [nodes |-> [i \in 1..MaxNodes |->
                [matrix   |-> NodeMatrixOfKind(i - 1, kind[i - 1]),
                 mesh     |-> NodeMeshOfKind(kind[i - 1]),
                 children |-> Ordered({m \in NodeIds : parent[m] = i - 1},
                                      descending)]],
   meshes |-> AssetMeshes,
   accessors |-> AssetAccessors,
   bufferViews |-> AssetBufferViews,
   buffers |-> AssetBuffers,
   scenes |-> << [nodes |-> Ordered({m \in NodeIds : parent[m] = -2},
                                    ~descending)],
                 [nodes |-> Ordered({m \in NodeIds : parent[m] = -1},
                                    descending)] >>,
   defaultScene |-> 1]

GltfModels ==
  {BuildModel(parent, kind, descending) :
     parent \in ParentMaps, kind \in [NodeIds -> 0..2], descending \in BOOLEAN}

\* What LoadASCIIFromFile may report: success (with or without a warning) with
\* any model, or a failure (an error string, a false return, or both) that
\* leaves a model behind.
FailedLoads ==
  {o \in [err : {"", "error"}, warn : {"", "warning"}, ret : BOOLEAN,
          model : {BuildModel([n \in NodeIds |-> -1], [n \in NodeIds |-> 0],
                              FALSE)}] :
     o.err # "" \/ ~o.ret}

LoaderOutcomes ==
  [err : {""}, warn : {"", "warning"}, ret : {TRUE}, model : GltfModels]
    \cup FailedLoads

(***************************************************************************)
(* The program state.                                                      *)
(***************************************************************************)
VARIABLES
  pc,              \* main's position
  vertexShader,    \* file-scope strings (lines 23-24)
  fragmentShader,
  vertices,        \* file-scope vectors (lines 33-34, 58)
  indicies,
  drawObjects,
  viewMtx,         \* file-scope matrices (lines 54-55)
  projMtx,
  loaded,          \* load_gltf_model's locals (model, err, warn, ret) as it ends
  pipeline,        \* main's locals (lines 215-223)
  framebuffers,
  vertexBuffer,
  indexBuffer,
  uniformBuffer,
  cmdBuffer,       \* the commands the last render callback recorded
  imageIndex,      \* ctx.imageIndex of the last render callback
  time,            \* ctx.time, in frames
  stages           \* history: the stages main has run, in order

vars ==
  << pc, vertexShader, fragmentShader, vertices, indicies, drawObjects,
     viewMtx, projMtx, loaded, pipeline, framebuffers, vertexBuffer,
     indexBuffer, uniformBuffer, cmdBuffer, imageIndex, time, stages >>

\* The contents of the two shader files.
FragmentGlsl == "fragment.glsl"
VertexGlsl == "vertex.glsl"

\* A zero-initialised file-scope glm::mat4.
ZeroMat4 == [i \in 1..16 |-> 0]

\* A std::shared_ptr<Buffer> that points at nothing yet.
NullBuffer == [size |-> -1, data |-> << >>]

\* A ShaderUniform nothing has been written into.
UninitUniform == [modelMtx |-> << >>, viewProjMtx |-> << >>]

\* No load_gltf_model frame is live.
NoLocals == [model |-> << >>, err |-> "", warn |-> "", ret |-> FALSE]

Init ==
  /\ pc = "start"
  /\ vertexShader = ""
  /\ fragmentShader = ""
  /\ vertices = << >>
  /\ indicies = << >>
  /\ drawObjects = << >>
  /\ viewMtx = ZeroMat4
  /\ projMtx = ZeroMat4
  /\ loaded = NoLocals
  /\ pipeline = [built |-> FALSE, vertexShader |-> "", fragmentShader |-> ""]
  /\ framebuffers = 0
  /\ vertexBuffer = NullBuffer
  /\ indexBuffer = NullBuffer
  /\ uniformBuffer = NullBuffer
  /\ cmdBuffer = << >>
  /\ imageIndex = -1
  /\ time = 0
  /\ stages = << >>

(***************************************************************************)
(* main, lines 202-211                                                     *)
(***************************************************************************)
\* Lines 61-68, called at line 205.
LoadShaderFile ==
  /\ pc = "start"
  /\ fragmentShader' = FragmentGlsl
  /\ vertexShader' = VertexGlsl
  /\ pc' = "shadersLoaded"
  /\ stages' = Append(stages, "load_shader_file")
  /\ UNCHANGED << vertices, indicies, drawObjects, viewMtx, projMtx, loaded,
                  pipeline, framebuffers, vertexBuffer, indexBuffer,
                  uniformBuffer, cmdBuffer, imageIndex, time >>

\* The effect of load_gltf_model (lines 159-199) on an outcome of the loader.
LoadGltfModelOn(o) ==
  /\ loaded' = o
  /\ IF LoaderFailed(o.err, o.ret)
       THEN /\ pc' = "terminated"
            /\ stages' = Append(stages, "load_gltf_model throws")
            /\ UNCHANGED << vertices, indicies, drawObjects >>
       ELSE LET st == FlattenModel(o.model,
                                   [vertices |-> vertices,
                                    indicies |-> indicies,
                                    drawObjects |-> drawObjects])
            IN  /\ vertices' = st.vertices
                /\ indicies' = st.indicies
                /\ drawObjects' = st.drawObjects
                /\ pc' = "modelLoaded"
                /\ stages' = Append(stages, "load_gltf_model")
  /\ UNCHANGED << vertexShader, fragmentShader, viewMtx, projMtx, pipeline,
                  framebuffers, vertexBuffer, indexBuffer, uniformBuffer,
                  cmdBuffer, imageIndex, time >>

\* A plausible slip: main loads the model before the shaders.
LoadGltfModelFirst ==
  /\ pc \in {"start", "shadersLoaded"}
  /\ \E o \in LoaderOutcomes : LoadGltfModelOn(o)

\* Line 208: load_gltf_model, on whatever LoadASCIIFromFile reports.  An
\* exception it throws is caught nowhere: the program terminates.
LoadGltfModel ==
  /\ pc = "shadersLoaded"
  /\ \E o \in LoaderOutcomes : LoadGltfModelOn(o)

\* Lines 211-223: the Renderer and main's locals are constructed;
\* load_gltf_model's frame is gone.
ConstructRenderer ==
  /\ pc = "modelLoaded"
  /\ pc' = "rendererUp"
  /\ loaded' = NoLocals
  /\ stages' = Append(stages, "Renderer")
  /\ UNCHANGED << vertexShader, fragmentShader, vertices, indicies,
                  drawObjects, viewMtx, projMtx, pipeline, framebuffers,
                  vertexBuffer, indexBuffer, uniformBuffer, cmdBuffer,
                  imageIndex, time >>

(***************************************************************************)
(* The init callback, lines 227-275                                        *)
(***************************************************************************)
\* Lines 229-235 and 238-244: AllocCPU2GPU of size() * sizeof(element) bytes,
\* then std::copy of the whole vector into the mapped buffer.
GpuUpload(elementSize, elements) ==
  [size |-> Len(elements) * elementSize, data |-> elements]

\* Line 246: the byte size of the uniform buffer.
UniformBufferBytes(images, n) == SizeofShaderUniform * images * n

\* Lines 227-275.
InitCallback ==
  /\ pc = "rendererUp"
  /\ vertexBuffer' = GpuUpload(SizeofVertex, vertices)
  /\ indexBuffer' = GpuUpload(SizeofUint32, indicies)
  /\ uniformBuffer' =
       [size |-> UniformBufferBytes(NumImages, Len(drawObjects)),
        data |-> [s \in 1..(UniformBufferBytes(NumImages, Len(drawObjects))
                              \div SizeofShaderUniform) |-> UninitUniform]]
  /\ pipeline' = [built |-> TRUE, vertexShader |-> vertexShader,
                  fragmentShader |-> fragmentShader]
  /\ framebuffers' = NumImages
  /\ pc' = "running"
  /\ stages' = Append(stages, "init")
  /\ UNCHANGED << vertexShader, fragmentShader, vertices, indicies,
                  drawObjects, viewMtx, projMtx, loaded, cmdBuffer,
                  imageIndex, time >>

(***************************************************************************)
(* The render callback, lines 277-318                                      *)
(***************************************************************************)
\* Line 280: glm::lookAt of an eye that moves with ctx.time.  The model keeps
\* of it that it is a matrix that differs from frame to frame.
LookAt(t) ==
  << 1, 0, 0, 0,   0, 1, 0, 0,   0, 0, 1, 0,   0 - t, 0, 0 - 2, 1 >>

\* Lines 281-282: glm::perspective, then projMtx[1][1] *= -1.0.  The model
\* keeps the shape of a perspective matrix, with integer entries.
Perspective ==
  [ << 2, 0, 0, 0,   0, 3, 0, 0,   0, 0, 0 - 1, 0 - 1,   0, 0, 0 - 1, 0 >>
      EXCEPT ![6] = 0 - 3 ]

\* A plausible slip: the slot ignores the draw count.
UniformSlotNoStride(k, n, i) == k + i

\* Lines 288 and 309: ctx.imageIndex * drawObjects.size() + i.
UniformSlot(k, n, i) == k * n + i

\* A plausible slip: the two matrices exchanged.
MakeUniformSwapped(drawCmd, proj, view) ==
  [modelMtx |-> Mat4Mul(proj, view), viewProjMtx |-> drawCmd.transform]

\* Lines 289-290: the ShaderUniform of one draw command.
MakeUniform(drawCmd, proj, view) ==
  [modelMtx |-> drawCmd.transform, viewProjMtx |-> Mat4Mul(proj, view)]

\* A store into the mapped uniform buffer (inside it).
WriteSlot(data, slot, value) ==
  IF slot + 1 \in DOMAIN data THEN [data EXCEPT ![slot + 1] = value] ELSE data

RECURSIVE FillUniforms(_, _, _, _, _, _)
\* Lines 285-292: the uniform-fill loop, from draw i on.
FillUniforms(data, draws, k, i, proj, view) ==
  IF i >= Len(draws)
    THEN data
    ELSE FillUniforms(
           WriteSlot(data, UniformSlot(k, Len(draws), i),
                     MakeUniform(draws[i + 1], proj, view)),
           draws, k, i + 1, proj, view)

\* A plausible slip: firstIndex and indexCount exchanged in the call.
DrawIndexedCmdSwapped(drawCmd) ==
  [op |-> "DrawIndexed",
   args |-> << drawCmd.firstIndex, drawCmd.indexCount, drawCmd.vertexOffset >>]

\* Line 310.
DrawIndexedCmd(drawCmd) ==
  [op |-> "DrawIndexed",
   args |-> << drawCmd.indexCount, drawCmd.firstIndex, drawCmd.vertexOffset >>]

\* Line 309: offset, size and binding of the uniform buffer range.
BindUniformCmd(k, n, i) ==
  [op |-> "BindGraphicsUniformBuffer",
   args |-> << SizeofShaderUniform * UniformSlot(k, n, i),
               SizeofShaderUniform, 0 >>]

RECURSIVE RecordDraws(_, _, _)
\* Lines 306-312: the draw loop, from draw i on.
RecordDraws(draws, k, i) ==
  IF i >= Len(draws)
    THEN << >>
    ELSE << BindUniformCmd(k, Len(draws), i), DrawIndexedCmd(draws[i + 1]) >>
           \o RecordDraws(draws, k, i + 1)

\* Lines 296-315: the command buffer of one frame.
RecordFrame(draws, k) ==
  << [op |-> "Begin", args |-> << >>],
     [op |-> "WithRenderPass", args |-> << k >>],
     [op |-> "BindPipeline", args |-> << >>],
     [op |-> "BindVertexBuffer", args |-> << 0 >>],
     [op |-> "BindIndexBuffer", args |-> << 0 >>] >>
    \o RecordDraws(draws, k, 0)
    \o << [op |-> "End", args |-> << >>] >>

\* Lines 277-318, for the swapchain image k the renderer acquired.
RenderCallback(k) ==
  /\ pc = "running"
  /\ time < MaxFrames
  /\ viewMtx' = LookAt(time)
  /\ projMtx' = Perspective
  /\ uniformBuffer' =
       [uniformBuffer EXCEPT
          !.data = FillUniforms(@, drawObjects, k, 0, Perspective, LookAt(time))]
  /\ cmdBuffer' = RecordFrame(drawObjects, k)
  /\ imageIndex' = k
  /\ time' = time + 1
  /\ stages' = Append(stages, "render")
  /\ UNCHANGED << pc, vertexShader, fragmentShader, vertices, indicies,
                  drawObjects, loaded, pipeline, framebuffers, vertexBuffer,
                  indexBuffer >>

\* Lines 320-322: the cleanup callback, when the renderer leaves its loop.
CleanupCallback ==
  /\ pc = "running"
  /\ pc' = "done"
  /\ stages' = Append(stages, "cleanup")
  /\ UNCHANGED << vertexShader, fragmentShader, vertices, indicies,
                  drawObjects, viewMtx, projMtx, loaded, pipeline,
                  framebuffers, vertexBuffer, indexBuffer, uniformBuffer,
                  cmdBuffer, imageIndex, time >>

Next ==
  \/ LoadShaderFile
  \/ LoadGltfModel
  \/ ConstructRenderer
  \/ InitCallback
  \/ \E k \in 0..(NumImages - 1) : RenderCallback(k)
  \/ CleanupCallback

Spec == Init /\ [][Next]_vars

(***************************************************************************)
(* What the flattening of a model is to produce, stated from the model     *)
(* alone: the node visits of the traversal are the paths from a root of    *)
(* the default scene down the children lists, a path being the list of the *)
(* positions taken (in scene.nodes, then in each children list).           *)
(***************************************************************************)
\* The model load_gltf_model has just flattened.
TheModel == loaded.model

JustLoaded == pc = "modelLoaded"

RECURSIVE Walk(_, _, _, _)
\* The node id that path p reaches from list at position k on, or -1.
Walk(model, list, p, k) ==
  IF p[k] > Len(list)
    THEN -1
    ELSE IF k = Len(p)
           THEN list[p[k]]
           ELSE Walk(model, model.nodes[list[p[k]] + 1].children, p, k + 1)

NodeOfPath(model, p) ==
  Walk(model, model.scenes[model.defaultScene + 1].nodes, p, 1)

RECURSIVE PathsOfLength(_, _)
\* The paths of d positions: one per root for d = 1, and one per child of the
\* node a path of d - 1 positions reaches.
PathsOfLength(model, d) ==
  IF d = 1
    THEN {<< i >> : i \in 1..Len(model.scenes[model.defaultScene + 1].nodes)}
    ELSE UNION {{Append(p, i) :
                   i \in 1..Len(model.nodes[NodeOfPath(model, p) + 1].children)} :
                  p \in PathsOfLength(model, d - 1)}

\* A forest of MaxNodes nodes has no path longer than MaxNodes.
VisitPaths(model) == UNION {PathsOfLength(model, d) : d \in 1..MaxNodes}

\* The primitives of the mesh of the node a path reaches.
PrimitivesOfPath(model, p) ==
  LET node == model.nodes[NodeOfPath(model, p) + 1]
  IN  IF node.mesh >= 0 THEN model.meshes[node.mesh + 1].primitives ELSE << >>

\* One item per node visit and primitive of the visited node's mesh.
ExpectedDraws(model) ==
  UNION {{<< p, a >> : a \in 1..Len(PrimitivesOfPath(model, p))} :
           p \in VisitPaths(model)}

PrimitiveOfItem(model, x) == PrimitivesOfPath(model, x[1])[x[2]]

IndexAccessorOfItem(model, x) ==
  model.accessors[PrimitiveOfItem(model, x).indices + 1]

PositionAccessorOfItem(model, x) ==
  model.accessors[PrimitiveOfItem(model, x).attributes.POSITION + 1]

IsPrefix(p, q) == Len(p) <= Len(q) /\ SubSeq(q, 1, Len(p)) = p

\* Depth-first pre-order on paths: a node before its descendants, the subtree
\* of an earlier entry of a list before that of a later one.
PathBefore(p, q) ==
  /\ p # q
  /\ \/ IsPrefix(p, q)
     \/ /\ ~IsPrefix(q, p)
        /\ \E k \in 1..Len(p) :
             /\ k <= Len(q)
             /\ SubSeq(p, 1, k - 1) = SubSeq(q, 1, k - 1)
             /\ p[k] < q[k]

ItemBefore(x, y) == (x[1] = y[1] /\ x[2] < y[2]) \/ PathBefore(x[1], y[1])

\* The 1-based place of item x in the pre-order listing of the items.
Rank(items, x) == Cardinality({y \in items : ItemBefore(y, x)}) + 1

\* The item at place j of the pre-order listing of the items.
ItemAt(items, j) == CHOOSE x \in items : Rank(items, x) = j

\* A node's local matrix as the glTF file gives it: the 16 numbers, or the
\* identity when the matrix field does not hold exactly 16.
ExpectedLocal(node) == IF Len(node.matrix) = 16 THEN node.matrix ELSE Identity4

RECURSIVE PathTransform(_, _, _)
\* Starting from the identity, at each of the first k nodes of the path in
\* order, the node's local matrix times the transform accumulated so far.
PathTransform(model, p, k) ==
  IF k = 0
    THEN Identity4
    ELSE Mat4Mul(ExpectedLocal(model.nodes[NodeOfPath(model, SubSeq(p, 1, k)) + 1]),
                 PathTransform(model, p, k - 1))

RECURSIVE SumOver(_, _)
SumOver(f, S) ==
  IF S = {} THEN 0
  ELSE LET x == CHOOSE y \in S : TRUE IN f[x] + SumOver(f, S \ {x})

\* Element e of an accessor as glTF defines it: the little-endian unsigned
\* integer of the accessor's component type at its stride.
AccessorElement(model, accessor, e) ==
  LET view == model.bufferViews[accessor.bufferView + 1]
      data == model.buffers[view.buffer + 1]
      size == ComponentSize(accessor.componentType)
      stride == IF view.byteStride = 0 THEN size ELSE view.byteStride
      base == view.byteOffset + accessor.byteOffset + stride * e
  IN  CASE size = 1 -> data[base + 1]
        [] size = 2 -> data[base + 1] + 256 * data[base + 2]
        [] size = 4 -> data[base + 1] + 256 * data[base + 2]
                         + 65536 * data[base + 3] + 16777216 * data[base + 4]

(***************************************************************************)
(* C1.  As stated: after load_gltf_model returns, the length of            *)
(* drawObjects equals the total number of primitives over the model's      *)
(* meshes, and each draw command covers exactly one primitive.             *)
(***************************************************************************)
TotalMeshPrimitives(model) ==
  SumOver([m \in 1..Len(model.meshes) |-> Len(model.meshes[m].primitives)],
          1..Len(model.meshes))

C1_OnePerMeshPrimitive ==
  JustLoaded => Len(drawObjects) = TotalMeshPrimitives(TheModel)

\* C1, amended: after load_gltf_model returns, drawObjects holds exactly one
\* draw command per node visit of the traversal and primitive of the visited
\* node's mesh: its length is the number of those (visit, primitive) pairs,
\* and for every count c the draw commands with indexCount c are as many as
\* the pairs whose primitive's index accessor has count c.
C1_OnePerVisitedPrimitive ==
  JustLoaded =>
    LET items == ExpectedDraws(TheModel)
    IN  /\ Len(drawObjects) = Cardinality(items)
        /\ \A acc \in 1..Len(TheModel.accessors) :
             LET c == TheModel.accessors[acc].count
             IN  Cardinality({j \in 1..Len(drawObjects) :
                                drawObjects[j].indexCount = c})
                   = Cardinality({x \in items :
                                    IndexAccessorOfItem(TheModel, x).count = c})

\* A mesh drawn by two node visits and a mesh drawn by none.
C1_Witness ==
  /\ JustLoaded
  /\ Len(drawObjects) > TotalMeshPrimitives(TheModel)
  /\ \E p, q \in VisitPaths(TheModel) :
       /\ p # q
       /\ TheModel.nodes[NodeOfPath(TheModel, p) + 1].mesh = 0
       /\ TheModel.nodes[NodeOfPath(TheModel, q) + 1].mesh = 0

(***************************************************************************)
(* C2.  The transform of each draw command is the product formed along the *)
(* path from the scene root to its node: from the identity, at each node   *)
(* in order, local matrix times accumulated transform; a matrix field of   *)
(* another size than 16 counts as the identity; all primitives of one node *)
(* visit get the same transform.                                           *)
(***************************************************************************)
C2_TransformAlongPath ==
  JustLoaded =>
    LET items == ExpectedDraws(TheModel)
    IN  /\ Len(drawObjects) = Cardinality(items)
        /\ \A x \in items :
             drawObjects[Rank(items, x)].transform
               = PathTransform(TheModel, x[1], Len(x[1]))
        /\ \A x, y \in items :
             x[1] = y[1] =>
               drawObjects[Rank(items, x)].transform
                 = drawObjects[Rank(items, y)].transform

\* A draw below two nodes whose 16-element matrices do not commute, and a draw
\* of a node whose matrix field holds 15 elements.
C2_Witness ==
  /\ JustLoaded
  /\ \E x \in ExpectedDraws(TheModel) :
       /\ Len(x[1]) >= 2
       /\ \A k \in 1..Len(x[1]) :
            Len(TheModel.nodes[NodeOfPath(TheModel, SubSeq(x[1], 1, k)) + 1].matrix) = 16
       /\ drawObjects[Rank(ExpectedDraws(TheModel), x)].transform
            # Mat4Mul(PathTransform(TheModel, x[1], Len(x[1]) - 1),
                      ExpectedLocal(TheModel.nodes[NodeOfPath(TheModel, x[1]) + 1]))
  /\ \E x \in ExpectedDraws(TheModel) :
       Len(TheModel.nodes[NodeOfPath(TheModel, x[1]) + 1].matrix) = 15

(***************************************************************************)
(* C3.  A non-empty error string or a false return of the loader makes     *)
(* load_gltf_model throw before any node is visited: the three vectors     *)
(* stay empty, the Renderer is never constructed, no callback ever runs    *)
(* and the program does nothing more.  A warning alone (empty error, true  *)
(* return) does not abort the load.                                        *)
(***************************************************************************)
C3_FailFast ==
  /\ pc \in {"modelLoaded", "terminated"} =>
       ((loaded.err # "" \/ ~loaded.ret) <=> pc = "terminated")
  /\ pc = "terminated" =>
       /\ vertices = << >>
       /\ indicies = << >>
       /\ drawObjects = << >>
       /\ \A k \in 1..Len(stages) : stages[k] \notin {"Renderer", "init", "render"}
       /\ ~pipeline.built
       /\ vertexBuffer = NullBuffer
       /\ time = 0
       /\ ~ENABLED Next

\* The loader returned false with an empty error string and left nodes behind.
C3_Witness ==
  /\ pc = "terminated"
  /\ loaded.err = ""
  /\ ~loaded.ret
  /\ Len(loaded.model.nodes) > 0

(***************************************************************************)
(* C4.  Once load_gltf_model has returned, no step of the program (the     *)
(* init, render and cleanup callbacks) changes drawObjects, vertices or    *)
(* indicies, and every frame issues one DrawIndexed per draw command, in   *)
(* list order, with that command's indexCount, firstIndex, vertexOffset.   *)
(***************************************************************************)
DrawCalls(cmds) == SelectSeq(cmds, LAMBDA c : c.op = "DrawIndexed")

flattened == << drawObjects, vertices, indicies >>

FlattenedKept ==
  pc \in {"modelLoaded", "rendererUp", "running", "done"} => UNCHANGED flattened

C4_ConsumedUnchanged ==
  /\ [][FlattenedKept]_vars
  /\ [](time > 0 =>
          /\ Len(DrawCalls(cmdBuffer)) = Len(drawObjects)
          /\ \A j \in 1..Len(drawObjects) :
               DrawCalls(cmdBuffer)[j].args
                 = << drawObjects[j].indexCount, drawObjects[j].firstIndex,
                      drawObjects[j].vertexOffset >>)

\* Two frames rendered over several draw commands whose firstIndex and
\* indexCount differ, then the cleanup.
C4_Witness ==
  /\ pc = "done"
  /\ time >= 2
  /\ Len(drawObjects) >= 2
  /\ drawObjects[2].firstIndex # drawObjects[2].indexCount

(***************************************************************************)
(* C5.  The stages run in the order load shaders, load model, construct    *)
(* the Renderer, init, render: each stage is preceded by the one before    *)
(* it, and from the init callback on the GPU vertex and index buffers      *)
(* hold the complete flattened vertices and indicies (vertices.size() and  *)
(* indicies.size() elements), so before any render callback.               *)
(***************************************************************************)
Precedes(a, b) ==
  \A j \in 1..Len(stages) :
    stages[j] = b => \E i \in 1..(j - 1) : stages[i] = a

C5_StageOrder ==
  /\ Precedes("load_shader_file", "load_gltf_model")
  /\ Precedes("load_shader_file", "load_gltf_model throws")
  /\ Precedes("load_gltf_model", "Renderer")
  /\ Precedes("Renderer", "init")
  /\ Precedes("init", "render")
  /\ Precedes("init", "cleanup")
  /\ (\E j \in 1..Len(stages) : stages[j] = "load_gltf_model") =>
       vertexShader = VertexGlsl /\ fragmentShader = FragmentGlsl
  /\ (\E j \in 1..Len(stages) : stages[j] = "init") =>
       /\ vertexBuffer.size = Len(vertices) * SizeofVertex
       /\ vertexBuffer.data = vertices
       /\ indexBuffer.size = Len(indicies) * SizeofUint32
       /\ indexBuffer.data = indicies
       /\ pipeline.vertexShader = VertexGlsl
       /\ pipeline.fragmentShader = FragmentGlsl

\* A frame rendered from non-empty buffers.
C5_Witness ==
  /\ time >= 1
  /\ Len(vertices) > 0
  /\ Len(indicies) > 0
  /\ stages[Len(stages)] = "render"

(***************************************************************************)
(* C6.  After the render callback for image index k, with N draw commands: *)
(* for every draw i in 0..N-1, uniform slot k*N+i holds modelMtx equal to  *)
(* drawObjects[i].transform and viewProjMtx equal to projMtx*viewMtx, the  *)
(* same for all i, and the uniform range bound before the i-th DrawIndexed *)
(* of the frame is that slot.                                              *)
(***************************************************************************)
BindCalls(cmds) == SelectSeq(cmds, LAMBDA c : c.op = "BindGraphicsUniformBuffer")

C6_UniformsPerFrame ==
  time > 0 =>
    LET n == Len(drawObjects)
    IN  /\ Len(BindCalls(cmdBuffer)) = n
        /\ \A i \in 0..(n - 1) :
             /\ uniformBuffer.data[imageIndex * n + i + 1].modelMtx
                  = drawObjects[i + 1].transform
             /\ uniformBuffer.data[imageIndex * n + i + 1].viewProjMtx
                  = Mat4Mul(projMtx, viewMtx)
             /\ BindCalls(cmdBuffer)[i + 1].args
                  = << SizeofShaderUniform * (imageIndex * n + i),
                       SizeofShaderUniform, 0 >>
             \* the bind is the command right before the i-th draw
             /\ cmdBuffer[5 + 2 * i + 1].op = "BindGraphicsUniformBuffer"
             /\ cmdBuffer[5 + 2 * i + 2].op = "DrawIndexed"

\* A second frame, for image 1, over draw commands with different transforms.
C6_Witness ==
  /\ time >= 2
  /\ imageIndex = 1
  /\ Len(drawObjects) >= 2
  /\ drawObjects[1].transform # drawObjects[2].transform
  /\ drawObjects[1].transform # Mat4Mul(projMtx, viewMtx)

(***************************************************************************)
(* C7.  The draw commands partition both buffers contiguously: the first   *)
(* starts at index 0 and vertex 0, each next one starts where the one      *)
(* before ends (firstIndex + indexCount; vertexOffset + the positions      *)
(* appended for it), the indexCounts sum to indicies.size() and the        *)
(* appended position counts to vertices.size().                            *)
(***************************************************************************)
PositionsOfDraw(items, j) ==
  PositionAccessorOfItem(TheModel, ItemAt(items, j)).count

C7_ContiguousPartition ==
  LET n == Len(drawObjects)
  IN  /\ n > 0 => drawObjects[1].firstIndex = 0 /\ drawObjects[1].vertexOffset = 0
      /\ \A j \in 2..n :
           drawObjects[j].firstIndex
             = drawObjects[j - 1].firstIndex + drawObjects[j - 1].indexCount
      /\ SumOver([j \in 1..n |-> drawObjects[j].indexCount], 1..n) = Len(indicies)
      /\ JustLoaded =>
           LET items == ExpectedDraws(TheModel)
               positions == [j \in 1..n |-> PositionsOfDraw(items, j)]
           IN  /\ n = Cardinality(items)
               /\ \A j \in 2..n :
                    drawObjects[j].vertexOffset
                      = drawObjects[j - 1].vertexOffset + positions[j - 1]
               /\ SumOver(positions, 1..n) = Len(vertices)

\* Three or more draw commands whose index and vertex counts differ.
C7_Witness ==
  /\ JustLoaded
  /\ Len(drawObjects) >= 3
  /\ drawObjects[3].firstIndex # drawObjects[3].vertexOffset
  /\ drawObjects[2].indexCount # drawObjects[1].indexCount

(***************************************************************************)
(* C8.  The indices appended for a primitive are the element values of its *)
(* index accessor, whatever its component type (8, 16 or 32 bits); so, for *)
(* a valid model, every index of a draw command plus its vertexOffset is   *)
(* below vertices.size() and inside the vertex range of its primitive.     *)
(***************************************************************************)
C8_IndicesAreAccessorElements ==
  JustLoaded =>
    LET items == ExpectedDraws(TheModel)
    IN  Len(drawObjects) = Cardinality(items) =>
          \A j \in 1..Len(drawObjects) :
            \A e \in 0..(drawObjects[j].indexCount - 1) :
              LET stored == indicies[drawObjects[j].firstIndex + e + 1]
              IN  /\ stored = AccessorElement(TheModel,
                                IndexAccessorOfItem(TheModel, ItemAt(items, j)), e)
                  /\ stored + drawObjects[j].vertexOffset < Len(vertices)
                  /\ stored < PositionsOfDraw(items, j)

(***************************************************************************)
(* C9.  Draw commands come in depth-first pre-order of the scene graph:    *)
(* the roots in the order of the default scene's list, a node's own        *)
(* primitives (in primitive order) before its descendants', the subtree of *)
(* an earlier child before that of a later child.  A node without a mesh   *)
(* appends nothing, and its children are visited with its accumulated      *)
(* transform; nodes the default scene does not reach contribute nothing.   *)
(***************************************************************************)
C9_DepthFirstPreOrder ==
  JustLoaded =>
    LET items == ExpectedDraws(TheModel)
    IN  /\ Len(drawObjects) = Cardinality(items)
        /\ \A x \in items :
             LET d == drawObjects[Rank(items, x)]
                 positions == PositionAccessorOfItem(TheModel, x)
             IN  /\ d.indexCount = IndexAccessorOfItem(TheModel, x).count
                 /\ d.transform = PathTransform(TheModel, x[1], Len(x[1]))
                 /\ SubSeq(vertices, d.vertexOffset + 1,
                           d.vertexOffset + positions.count)
                      = [k \in 1..positions.count |->
                           ReadVertex(TheModel, positions, k - 1)]
        /\ Len(vertices)
             = SumOver([x \in items |->
                          PositionAccessorOfItem(TheModel, x).count], items)
        /\ Len(indicies)
             = SumOver([x \in items |->
                          IndexAccessorOfItem(TheModel, x).count], items)

\* A node without a mesh, listed from the higher node id down, with two
\* children that carry different meshes: the draw commands are those of the
\* first listed child, then those of the second.
C9_Witness ==
  /\ JustLoaded
  /\ \E p \in VisitPaths(TheModel) :
       LET node == TheModel.nodes[NodeOfPath(TheModel, p) + 1]
       IN  /\ node.mesh < 0
           /\ Len(node.children) = 2
           /\ node.children[1] > node.children[2]
           /\ TheModel.nodes[node.children[1] + 1].mesh = 1
           /\ TheModel.nodes[node.children[2] + 1].mesh = 0
  /\ Len(drawObjects) = 3

(***************************************************************************)
(* C10.  With S swapchain images and N draw commands the uniform buffer    *)
(* holds S*N slots; the slots a frame for image k binds are N different    *)
(* slots of k's own block k*N .. k*N+N-1, all below S*N, so no two pairs   *)
(* (k, i) share a slot; and a frame for image k leaves the slots of every  *)
(* other image as they were.                                               *)
(***************************************************************************)
BoundSlots == [j \in 1..Len(BindCalls(cmdBuffer)) |->
                 BindCalls(cmdBuffer)[j].args[1] \div SizeofShaderUniform]

OtherImagesKept ==
  time' = time + 1 =>
    \A s \in 1..Len(uniformBuffer.data) :
      (s - 1) \div Len(drawObjects) # imageIndex' =>
        uniformBuffer'.data[s] = uniformBuffer.data[s]

C10_UniformSlotsDisjoint ==
  /\ [](pc \in {"running", "done"} =>
          LET n == Len(drawObjects)
          IN  /\ uniformBuffer.size = SizeofShaderUniform * NumImages * n
              /\ Len(uniformBuffer.data) = NumImages * n
              /\ time > 0 =>
                   /\ Len(BoundSlots) = n
                   /\ \A j \in 1..n :
                        /\ BoundSlots[j] < NumImages * n
                        /\ BoundSlots[j] \div n = imageIndex
                        /\ BindCalls(cmdBuffer)[j].args[1]
                             + BindCalls(cmdBuffer)[j].args[2]
                             <= uniformBuffer.size
                        /\ uniformBuffer.data[BoundSlots[j] + 1] # UninitUniform
                   /\ \A i, j \in 1..n : i # j => BoundSlots[i] # BoundSlots[j]
                   /\ \A s \in 1..Len(uniformBuffer.data) :
                        (s - 1) \div n = imageIndex =>
                          \E j \in 1..n : BoundSlots[j] = s - 1)
  /\ [][OtherImagesKept]_vars

\* A frame for image 1 after a frame for image 0, over several draw commands.
C10_Witness ==
  /\ time >= 2
  /\ imageIndex = 1
  /\ Len(drawObjects) >= 2
  /\ uniformBuffer.data[1] # UninitUniform
  /\ uniformBuffer.data[1].viewProjMtx
       # uniformBuffer.data[Len(drawObjects) + 1].viewProjMtx

====
